---- MODULE Spec2Model ----
(***************************************************************************)
(* sharedpacker (src/sharedpacker/src/main.rs): the dependency traversal   *)
(* (traverse_dependencies), the ldd / patchelf output parsers and the      *)
(* packager (copy_dependencies_to_output_folder) as a state machine.       *)
(*                                                                         *)
(* The recursion of traverse_dependencies is an explicit stack of frames;  *)
(* every call of an external tool (ldd, patchelf, the file system) is a    *)
(* step whose answer is drawn from a bounded set.                          *)
(***************************************************************************)
EXTENDS Integers, Sequences, FiniteSets, TLC

\* ------------------------------------------------------------------------
\* Bounds of the environment
\* ------------------------------------------------------------------------
\* most lines of one ldd output
MaxLddLines == 2
\* most lines of one `patchelf --print-needed` output
MaxNeeded == 2

\* ------------------------------------------------------------------------
\* Strings: names, paths and the string functions the code applies to them
\* ------------------------------------------------------------------------
ExecPath == "/bin/app"
LoaderAbs == "/lib/ld-linux.so.2"
LibNames == {"app", "libA", "libB", "libC"}
\* the libraries of the host on which the whole run, packaging included, is explored
PackagedLibs == LibNames \ {"libA"}
NeededNames == LibNames \cup {"ld-linux.so.2"}
LibPaths == {"/bin/app", "/lib/libA", "/lib/libB", "/lib/libC", "/alt/libC"}
Paths == LibPaths \cup {LoaderAbs}

\* Path::file_name: the last component of a path
FileName(p) ==
    CASE p = "/bin/app" -> "app"
      [] p = "/lib/libA" -> "libA"
      [] p = "/lib/libB" -> "libB"
      [] p = "/lib/libC" -> "libC"
      [] p = "/alt/libC" -> "libC"
      [] p = "/lib/ld-linux.so.2" -> "ld-linux.so.2"
      [] OTHER -> p

\* str::starts_with('/')
StartsWithSlash(s) == s \in Paths

\* libname.rsplit('/').next().unwrap_or(libname): the text after the last '/'
RsplitSlash(s) == FileName(s)

\* str::starts_with("ld-linux")
StartsWithLdLinux(s) == s \in {"ld-linux.so.2"}

Range(s) == {s[i] : i \in 1..Len(s)}
SeqsUpTo(S, n) == UNION {[1..k -> S] : k \in 0..n}

\* ------------------------------------------------------------------------
\* Outputs of the external tools
\* ------------------------------------------------------------------------
\* One line of ldd's stdout.  indent: the line starts with ' ' or '\t';
\* arrow: it contains " => "; libname: the text before the arrow; pathpart:
\* the text after it, as its space-separated words.
Line(ind, arr, n, pp) == [indent |-> ind, arrow |-> arr, libname |-> n, pathpart |-> pp]
Found(n, p) == Line(TRUE, TRUE, n, <<p, "(0x1)">>)
NotFound(n) == Line(TRUE, TRUE, n, <<"not", "found">>)
LoaderLine == Line(TRUE, TRUE, LoaderAbs, <<LoaderAbs, "(0x1)">>)
VdsoLine == Line(TRUE, FALSE, "linux-vdso.so.1", <<"(0x1)">>)
HeaderLine == Line(FALSE, TRUE, "libC", <<"not", "found">>)

\* what exechelper::execute returns: an error, or exit status and output
ExecError == [exec |-> "error", status |-> 1, stdout |-> <<>>, stderr |-> "spawn failed"]
ExecExit(st, out, err) == [exec |-> "ok", status |-> st, stdout |-> out, stderr |-> err]

\* The binaries of the modelled host.  For each, the names it may declare as
\* needed (patchelf prints any list of distinct names among them) ...
NeededNamesAt(path) ==
    CASE path = "/bin/app" -> {"libA", "libB", "app", "ld-linux.so.2"}
      [] path = "/lib/libA" -> {"libC", "libB"}
      [] path = "/lib/libB" -> {"libC", "libA"}
      [] path = "/alt/libC" -> {"libC", "libB"}
      [] OTHER -> {"ld-linux.so.2"}

\* ... and the lines ldd may print for it (any list of distinct lines)
LddLinesAt(path) ==
    CASE path = "/bin/app" ->
            {Found("libA", "/lib/libA"), Found("libB", "/lib/libB"), Found("libB", "/alt/libC"),
             Found("app", "/bin/app"), LoaderLine}
      [] path = "/lib/libA" ->
            {Found("libC", "/lib/libC"), Found("libB", "/alt/libC"), NotFound("libC")}
      [] path = "/lib/libB" ->
            {Found("libA", "/lib/libA"), NotFound("libC")}
      [] path = "/alt/libC" ->
            {Found("libC", "/lib/libC"), Found("libB", "/lib/libB")}
      [] OTHER -> {LoaderLine, VdsoLine, HeaderLine}

\* the same, on a host where only the libraries of the set libs exist
NeededNamesOf(libs, path) == NeededNamesAt(path) \ (LibNames \ libs)
LddLinesOf(libs, path) == {l \in LddLinesAt(path) : l.libname \notin LibNames \ libs}

\* the lists of at most n distinct elements of S
DistinctSeqs(S, n) ==
    {s \in SeqsUpTo(S, n) : \A i, j \in 1..Len(s) : i # j => s[i] # s[j]}

LddOutputs(libs, path) ==
    {ExecError, ExecExit(1, <<>>, "ldd failed")}
        \cup {ExecExit(0, ls, "") : ls \in DistinctSeqs(LddLinesOf(libs, path), MaxLddLines)}

PatchelfNeededOutputs(libs, path) ==
    {ExecError, ExecExit(1, <<>>, "patchelf failed")}
        \cup {ExecExit(0, ls, "") : ls \in DistinctSeqs(NeededNamesOf(libs, path), MaxNeeded)}

\* ------------------------------------------------------------------------
\* Result values
\* ------------------------------------------------------------------------
Ok(v) == [ok |-> TRUE, val |-> v, err |-> <<>>]
Err(e) == [ok |-> FALSE, val |-> <<>>, err |-> e]

SharedLib(n, p) == [name |-> n, path |-> p]
DependencyNode(n, p, d) == [name |-> n, path |-> p, dependencies |-> d]

\* pathpart.contains("not found")
ContainsNotFound(pp) ==
    \E i \in 1..(Len(pp) - 1) : pp[i] = "not" /\ pp[i + 1] = "found"

\* pathpart cut at its first ' '
CutAtSpace(pp) == IF pp = <<>> THEN "" ELSE pp[1]

\* the message of the "not found" error
NotFoundError(libname) == <<"Dependency on", libname, "is not found">>

\* the loop of parse_ldd_output over the lines, from line i with outvec acc
RECURSIVE ParseLines(_, _, _, _)
ParseLines(lines, i, acc, only_loader) ==
    IF i > Len(lines) THEN Ok(acc)
    ELSE LET line == lines[i] IN
         IF ~line.indent THEN ParseLines(lines, i + 1, acc, only_loader)
         ELSE IF ~line.arrow THEN ParseLines(lines, i + 1, acc, only_loader)
         ELSE IF ContainsNotFound(line.pathpart) THEN Err(NotFoundError(line.libname))
         ELSE IF ~only_loader /\ StartsWithSlash(line.libname)
              THEN ParseLines(lines, i + 1, acc, only_loader)
         ELSE LET is_loader == only_loader /\ StartsWithSlash(line.libname)
                  libname == IF is_loader THEN RsplitSlash(line.libname) ELSE line.libname
                  pathpart == CutAtSpace(line.pathpart)
              IN IF is_loader THEN Ok(<<SharedLib(libname, pathpart)>>)
                 ELSE ParseLines(lines, i + 1, Append(acc, SharedLib(libname, pathpart)), only_loader)

parse_ldd_output(output, only_loader) ==
    IF output.exec = "error" THEN Err(<<output.stderr>>)
    ELSE IF output.status # 0 THEN Err(<<output.stderr>>)
    ELSE ParseLines(output.stdout, 1, <<>>, only_loader)

\* Faulty variant: the lines marked "not found" are passed over
get_lib_path_listLenient(output) ==
    IF output.exec = "error" THEN parse_ldd_output(output, FALSE)
    ELSE parse_ldd_output(
            [output EXCEPT !.stdout = SelectSeq(@, LAMBDA l : ~ContainsNotFound(l.pathpart))],
            FALSE)

get_lib_path_list(output) == parse_ldd_output(output, FALSE)

FailedToGetLoader == <<"Failed to get loader from", ExecPath>>

get_loader(output) ==
    LET loader == parse_ldd_output(output, TRUE) IN
    IF ~loader.ok THEN loader
    ELSE IF Len(loader.val) > 0 THEN Ok(loader.val[1])
    ELSE Err(FailedToGetLoader)

\* the loop of get_needed_libs: the lines that do not start with "ld-linux"
RECURSIVE FilterNeeded(_)
FilterNeeded(lines) ==
    IF lines = <<>> THEN <<>>
    ELSE IF StartsWithLdLinux(Head(lines)) THEN FilterNeeded(Tail(lines))
    ELSE <<Head(lines)>> \o FilterNeeded(Tail(lines))

get_needed_libs(output) ==
    IF output.exec = "error" THEN Err(<<output.stderr>>)
    ELSE IF output.status # 0 THEN Err(<<output.stderr>>)
    ELSE Ok(FilterNeeded(output.stdout))

\* ------------------------------------------------------------------------
\* traverse_dependencies
\* ------------------------------------------------------------------------
\* HashMap<String, PathBuf> as a function on the set of its keys
EmptyMap == [n \in {} |-> ""]
ContainsKey(map, k) == k \in DOMAIN map
Insert(map, k, v) == [n \in DOMAIN map \cup {k} |-> IF n = k THEN v ELSE map[n]]

\* Faulty variant: the entry is overwritten: the last report wins
InsertAlways(map, lib) == Insert(map, lib.name, lib.path)

\* one turn of the loop over shared_libs: insert unless the key is present
InsertIfAbsent(map, lib) ==
    IF ~ContainsKey(map, lib.name) THEN Insert(map, lib.name, lib.path) ELSE map

\* the loop `for lib in shared_libs`
RECURSIVE InsertLibs(_, _)
InsertLibs(map, shared_libs) ==
    IF shared_libs = <<>> THEN map
    ELSE InsertLibs(InsertIfAbsent(map, Head(shared_libs)), Tail(shared_libs))

\* Faulty variant: the guard never finds the lib
ContainsNever(vec, x) == FALSE

\* Faulty variant: the guard finds every lib
ContainsAlways(vec, x) == TRUE

\* use_libs.contains(&lib)
Contains(vec, x) == x \in Range(vec)

\* Faulty variant: the lib is not recorded
MarkUsedNot(vec, lib) == vec

\* Faulty variant: the lib is recorded twice
MarkUsedTwice(vec, lib) == Append(Append(vec, lib), lib)

\* line 215: use_libs.push(lib.clone())
MarkUsed(vec, lib) == Append(vec, lib)

\* Faulty variant: the node is put in front of the list
PushNodeFront(nodes, node) == <<node>> \o nodes

\* line 223: dependency_nodes.push(dependency_node)
PushNode(nodes, node) == Append(nodes, node)

\* Faulty variant: the message does not name the lib
UnknownLocationErrorAnon(lib) ==
    <<"Found needed library that we don't know a location of:">>

\* lines 203: the message of the unknown-location error
UnknownLocationError(lib) ==
    <<"Found needed library that we don't know a location of:", lib>>

\* a call of traverse_dependencies that has not yet run ldd
Frame(name, path) ==
    [needed_name |-> name, needed_path |-> path, at |-> "ldd",
     dependency_node |-> DependencyNode(name, path, <<>>),
     needed_shared_libs |-> <<>>]

\* ------------------------------------------------------------------------
\* The output directory
\* ------------------------------------------------------------------------
execname == FileName(ExecPath)
OutputName == "sharedpacker_out"

NoFiles == [n \in {} |-> ""]
\* a file: what it holds, its ELF interpreter and rpath, its executable bit
File(k, b, in, rp, x) == [kind |-> k, body |-> b, interpreter |-> in, rpath |-> rp, executable |-> x]
\* the file at a path of the host, as std::fs::copy copies it
HostFile(path) == File("binary", path, "original", "original", TRUE)
StaleFile == File("stale", "old", "original", "original", FALSE)

Unobserved == [kind |-> "unobserved", files |-> NoFiles]
Absent == [kind |-> "absent", files |-> NoFiles]
RegularFile == [kind |-> "file", files |-> NoFiles]
Dir(fs) == [kind |-> "dir", files |-> fs]
\* what may be at the output path when main gets there
OutDirs == {Absent, RegularFile, Dir([n \in {"stale.so"} |-> StaleFile])}

NoLoader == SharedLib("", "")

\* the record of the writes of this run: who wrote the file (the turn of the
\* loop over dependencies for a node, the loader copy, the script) and the
\* answer of patchelf --set-interpreter for it, if it was asked
NoWrites == [n \in {} |-> <<>>]
Write(by, i) == [by |-> by, node |-> i, editor |-> "not asked"]
Written(w, name, by, i) ==
    [n \in DOMAIN w \cup {name} |-> IF n = name THEN Write(by, i) ELSE w[n]]

\* the count of the calls of ldd and patchelf, after one more that returned
\* Ok (ok) or Err to its caller
NoCalls == [calls |-> 0, errors |-> 0, unresolved_at |-> 0]
Called(t, ok) ==
    [t EXCEPT !.calls = @ + 1, !.errors = IF ok THEN @ ELSE @ + 1]

\* a line of an ldd output that marks a dependency "not found"
IsUnresolved(line) == line.indent /\ line.arrow /\ ContainsNotFound(line.pathpart)
\* the place of the first such line in what ldd printed; 0 if there is none
UnresolvedAt(output) ==
    IF output.exec = "ok" /\ output.status = 0
          /\ \E i \in 1..Len(output.stdout) : IsUnresolved(output.stdout[i])
    THEN CHOOSE i \in 1..Len(output.stdout) :
            /\ IsUnresolved(output.stdout[i])
            /\ \A j \in 1..(i - 1) : ~IsUnresolved(output.stdout[j])
    ELSE 0

\* ldd has not been run on the executable yet
NotRun == [run |-> FALSE, stdout |-> <<>>]

VARIABLES
    installed,              \* the libraries that exist on the host
    exec_ldd,               \* what ldd printed for the executable, once it has been run on it
    known_lib_location_map, \* main's lib_location_map
    use_libs,               \* main's used_libs
    dependency_nodes,       \* main's dependencies
    stack,                  \* the active calls of traverse_dependencies, innermost last
    pc,                     \* where main is
    exit,                   \* what main ended with: "running", or status and message
    visits,                 \* number of calls of traverse_dependencies so far
    declared,               \* names listed so far by get_needed_libs
    first_report,           \* for each name, the path of its first mention in an ldd report
    ignored,                \* the (name, path) of reports that named another path than the map's
    cli,                    \* the parsed command line: force, make_wrapper
    outdir,                 \* the output path on disk: absent, a file, or a directory and its files
    out_before,             \* the output path as main found it
    loader,                 \* main's loader
    copied,                 \* number of turns done of the loop over dependencies
    written_by,             \* for each file this run wrote: the step that wrote it last, and
                            \* what patchelf answered for it
    tools                   \* how many times ldd and patchelf were run, and how many of
                            \* these calls returned an error to their caller

resolver == <<known_lib_location_map, use_libs, dependency_nodes, stack, visits, declared,
              first_report, ignored>>
packager == <<cli, outdir, out_before, loader, copied, written_by>>
vars == <<installed, exec_ldd, resolver, packager, pc, exit, tools>>

Running == [status |-> -1, stderr |-> <<>>]
Exited(st, msg) == [status |-> st, stderr |-> msg]

Top == stack[Len(stack)]
SetTop(f) == [stack EXCEPT ![Len(stack)] = f]
Pop == SubSeq(stack, 1, Len(stack) - 1)

\* main before the call of traverse_dependencies, on a host with the libraries libs
InitOn(libs) ==
    /\ installed = libs
    /\ exec_ldd = NotRun
    /\ known_lib_location_map = EmptyMap
    /\ use_libs = <<>>
    /\ dependency_nodes = <<>>
    /\ stack = <<Frame(FileName(ExecPath), ExecPath)>>
    /\ pc = "traverse"
    /\ exit = Running
    /\ visits = 1
    /\ declared = {}
    /\ first_report = EmptyMap
    /\ ignored = {}
    /\ cli \in [force : BOOLEAN, make_wrapper : BOOLEAN]
    /\ outdir = Unobserved
    /\ out_before = Unobserved
    /\ loader = NoLoader
    /\ copied = 0
    /\ written_by = NoWrites
    /\ tools = NoCalls

Init == InitOn(PackagedLibs)
InitResolve == InitOn(LibNames)

\* The answers of the tools are those of one host: a binary asked again
\* answers as before, unless the tool cannot be run.  Only the executable is
\* ever asked twice (every other path of the host belongs to one name).
LddAnswers(path) ==
    IF path = ExecPath /\ exec_ldd.run
    THEN {ExecError, ExecExit(0, exec_ldd.stdout, "")}
    ELSE LddOutputs(installed, path)

\* what the root call has got from patchelf for the executable
ExecNeeded == stack[1].dependency_node.dependencies \o stack[1].needed_shared_libs
NeededAnswers(path) ==
    IF path = ExecPath /\ Len(stack) > 1
    THEN {o \in PatchelfNeededOutputs(installed, path) :
            o.status # 0 \/ FilterNeeded(o.stdout) = ExecNeeded}
    ELSE PatchelfNeededOutputs(installed, path)

\* Faulty variant: the Err is dropped and the call is made again
TraverseFailsRetry(e) == UNCHANGED <<stack, pc, exit>>

\* an Err returned through every `?` up to main, which prints it and exits
TraverseFails(e) ==
    /\ stack' = <<>>
    /\ pc' = "exit"
    /\ exit' = Exited(1, <<"Failed to traverse dependencies:">> \o e)

\* lines 176-191: run ldd on needed_path, add its libs to the map, make the node
Inspect ==
    /\ pc = "traverse" /\ stack # <<>> /\ Top.at = "ldd"
    /\ \E output \in LddAnswers(Top.needed_path) :
        LET shared_libs == get_lib_path_list(output) IN
        /\ tools' = [Called(tools, shared_libs.ok) EXCEPT !.unresolved_at = UnresolvedAt(output)]
        /\ exec_ldd' = IF Top.needed_path = ExecPath /\ shared_libs.ok
                       THEN [run |-> TRUE, stdout |-> output.stdout] ELSE exec_ldd
        /\ IF ~shared_libs.ok
           THEN /\ TraverseFails(shared_libs.err)
                /\ UNCHANGED <<known_lib_location_map, first_report, ignored>>
           ELSE /\ known_lib_location_map' = InsertLibs(known_lib_location_map, shared_libs.val)
                /\ first_report' =
                       [n \in DOMAIN first_report \cup {l.name : l \in Range(shared_libs.val)} |->
                           IF n \in DOMAIN first_report THEN first_report[n]
                           ELSE LET i == CHOOSE i \in 1..Len(shared_libs.val) :
                                           /\ shared_libs.val[i].name = n
                                           /\ \A j \in 1..(i - 1) : shared_libs.val[j].name # n
                                IN shared_libs.val[i].path]
                /\ ignored' = ignored \cup
                       {<<l.name, l.path>> : l \in {m \in Range(shared_libs.val) :
                           known_lib_location_map'[m.name] # m.path}}
                /\ stack' = SetTop([Top EXCEPT !.at = "needed"])
                /\ UNCHANGED <<pc, exit>>
    /\ UNCHANGED <<use_libs, dependency_nodes, visits, declared>>
    /\ UNCHANGED <<installed, packager>>

\* line 195: run patchelf --print-needed on needed_path
ListNeeded ==
    /\ pc = "traverse" /\ stack # <<>> /\ Top.at = "needed"
    /\ \E output \in NeededAnswers(Top.needed_path) :
        LET needed_shared_libs == get_needed_libs(output) IN
        /\ tools' = Called(tools, needed_shared_libs.ok)
        /\ IF ~needed_shared_libs.ok
           THEN /\ TraverseFails(needed_shared_libs.err)
                /\ UNCHANGED declared
           ELSE /\ stack' = SetTop([Top EXCEPT !.at = "loop",
                                               !.needed_shared_libs = needed_shared_libs.val])
                /\ declared' = declared \cup Range(needed_shared_libs.val)
                /\ UNCHANGED <<pc, exit>>
    /\ UNCHANGED <<known_lib_location_map, use_libs, dependency_nodes, visits, first_report,
                   ignored>>
    /\ UNCHANGED <<installed, exec_ldd, packager>>

\* the next lib of the loop `for lib in needed_shared_libs`
AtLoop == pc = "traverse" /\ stack # <<>> /\ Top.at = "loop" /\ Top.needed_shared_libs # <<>>
NextLib == Head(Top.needed_shared_libs)
\* the frame after `dependency_node.dependencies.push(lib.clone())`
Pushed ==
    [Top EXCEPT !.dependency_node.dependencies = Append(@, NextLib),
                !.needed_shared_libs = Tail(@)]

\* lines 200-205: the lib has no entry in the map
UnknownLocation ==
    /\ AtLoop
    /\ ~ContainsKey(known_lib_location_map, NextLib)
    /\ TraverseFails(UnknownLocationError(NextLib))
    /\ UNCHANGED <<known_lib_location_map, use_libs, dependency_nodes, visits, declared,
                   first_report, ignored>>
    /\ UNCHANGED <<installed, tools, exec_ldd, packager>>

\* lines 208-220: the lib is not in use_libs: push it and recurse
Recurse ==
    /\ AtLoop
    /\ ContainsKey(known_lib_location_map, NextLib)
    /\ ~Contains(use_libs, NextLib)
    /\ use_libs' = MarkUsed(use_libs, NextLib)
    /\ stack' = Append(SetTop(Pushed), Frame(NextLib, known_lib_location_map[NextLib]))
    /\ visits' = visits + 1
    /\ UNCHANGED <<known_lib_location_map, dependency_nodes, pc, exit, declared, first_report, ignored>>
    /\ UNCHANGED <<installed, tools, exec_ldd, packager>>

\* line 208: the lib is already in use_libs: go on with the next one
Skip ==
    /\ AtLoop
    /\ ContainsKey(known_lib_location_map, NextLib)
    /\ Contains(use_libs, NextLib)
    /\ stack' = SetTop(Pushed)
    /\ UNCHANGED <<known_lib_location_map, use_libs, dependency_nodes, pc, exit, visits,
                   declared, first_report, ignored>>
    /\ UNCHANGED <<installed, tools, exec_ldd, packager>>

\* lines 223-224: the loop is over: append the node and return Ok
Return ==
    /\ pc = "traverse" /\ stack # <<>> /\ Top.at = "loop" /\ Top.needed_shared_libs = <<>>
    /\ dependency_nodes' = PushNode(dependency_nodes, Top.dependency_node)
    /\ stack' = Pop
    /\ pc' = IF Len(stack) = 1 THEN "check_output" ELSE pc
    /\ UNCHANGED <<known_lib_location_map, use_libs, exit, visits, declared, first_report, ignored>>
    /\ UNCHANGED <<installed, tools, exec_ldd, packager>>

\* main ends: the process exits with a status and what it printed last
Exit(st, msg) ==
    /\ pc' = "exit"
    /\ exit' = Exited(st, msg)

OutputExistsError ==
    <<"Output directory", OutputName, "already exists. use --force if you want to override">>

\* Faulty variant: the existing directory is never refused
OutputBlockedNever(out, force) == FALSE

\* line 379: output_name.is_dir() && output_name.exists() && !cli.force
OutputBlocked(out, force) == out.kind = "dir" /\ ~force

\* lines 378-382: look at the output path; exit if it is a directory and no --force
CheckOutput ==
    /\ pc = "check_output"
    /\ \E out \in OutDirs :
        /\ outdir' = out
        /\ out_before' = out
        /\ IF OutputBlocked(out, cli.force)
           THEN Exit(1, OutputExistsError)
           ELSE pc' = "get_loader" /\ UNCHANGED exit
    /\ UNCHANGED <<installed, tools, exec_ldd, resolver, cli, loader, copied, written_by>>

\* lines 384-390: run ldd on the executable again, for the loader
GetLoader ==
    /\ pc = "get_loader"
    /\ \E output \in LddAnswers(ExecPath) :
        LET l == get_loader(output) IN
        /\ tools' = Called(tools, l.ok)
        /\ IF ~l.ok
           THEN Exit(1, l.err) /\ UNCHANGED loader
           ELSE loader' = l.val /\ pc' = "create_dir" /\ UNCHANGED exit
    /\ UNCHANGED <<installed, exec_ldd, resolver, cli, outdir, out_before, copied, written_by>>

\* copy_dependencies_to_output_folder returns Err(e): main prints it and exits
PackagingFails(e) == Exit(1, <<"Failed to copy dependencies to output folder:">> \o e)

\* where the loop over dependencies goes after n turns
AfterLoop(n) == IF n < Len(dependency_nodes) THEN "copy" ELSE "copy_loader"

\* line 289: std::fs::create_dir_all(&archive_path)
CreateDir ==
    /\ pc = "create_dir"
    /\ \/ /\ outdir.kind # "file"
          /\ outdir' = Dir(outdir.files)
          /\ pc' = AfterLoop(0)
          /\ UNCHANGED exit
       \/ /\ outdir.kind # "dir"
          /\ PackagingFails(<<"create_dir_all failed">>)
          /\ UNCHANGED outdir
    /\ UNCHANGED <<installed, tools, exec_ldd, resolver, cli, out_before, loader, copied, written_by>>

\* Faulty variant: a file that is already there is kept
CopyToKeep(files, name, from) ==
    [n \in DOMAIN files \cup {name} |-> IF n \in DOMAIN files THEN files[n] ELSE HostFile(from)]

\* std::fs::copy(from, dir/name): the file name now holds a copy of the source
CopyTo(files, name, from) ==
    [n \in DOMAIN files \cup {name} |-> IF n = name THEN HostFile(from) ELSE files[n]]

\* the dependency of the current turn of the loop
Dep == dependency_nodes[copied + 1]

\* lines 291-299: copy the next dependency under its file name
CopyDep ==
    /\ pc = "copy"
    /\ copied < Len(dependency_nodes)
    /\ \/ /\ outdir' = Dir(CopyTo(outdir.files, FileName(Dep.path), Dep.path))
          /\ written_by' = Written(written_by, FileName(Dep.path), "node", copied + 1)
          /\ pc' = "patch"
          /\ UNCHANGED exit
       \/ /\ PackagingFails(<<"Failed to copy", Dep.path, "to", FileName(Dep.path)>>)
          /\ UNCHANGED <<outdir, written_by>>
    /\ UNCHANGED <<installed, tools, exec_ldd, resolver, cli, out_before, loader, copied>>

\* format!("./{}", loader)
DotSlash(name) == "./" \o name

\* Faulty variant: the file is left as it was copied
SetInterpreterNot(f, name) == f

\* what patchelf --set-interpreter ./loader --set-rpath . does to a file
SetInterpreter(f, name) == [f EXCEPT !.interpreter = DotSlash(name), !.rpath = "."]

\* the binaries of the host that may be statically linked
MaybeStatic == {"/alt/libC"}

\* the answers of patchelf --set-interpreter on a copy of the binary at path:
\* done, or a failure and its stderr
PatchelfSetOutputs(path) ==
    {ExecError, ExecExit(0, <<>>, ""), ExecExit(1, <<>>, "not an ELF")}
        \cup {ExecExit(1, <<>>, "statically linked") : p \in {path} \cap MaybeStatic}

\* Faulty variant: no answer of patchelf is taken for "statically linked"
ContainsStaticallyLinkedNever(stderr) == FALSE

\* output.stderr.contains("statically linked")
ContainsStaticallyLinked(stderr) == stderr = "statically linked"

\* lines 257-268: what patch_loader returns for an answer of patchelf
patch_loader(output, object_path) ==
    IF output.exec = "error" THEN Err(<<output.stderr>>)
    ELSE IF output.status # 0
         THEN IF ContainsStaticallyLinked(output.stderr) THEN Ok(<<>>)
              ELSE Err(<<"Failed to patch loader for", object_path, output.stderr>>)
    ELSE Ok(<<>>)

\* line 302: patch the copy just made, then go on with the next dependency
PatchDep ==
    /\ pc = "patch"
    /\ \E output \in PatchelfSetOutputs(Dep.path) :
        LET name == FileName(Dep.path)
            r == patch_loader(output, name)
        IN /\ tools' = Called(tools, r.ok)
           /\ written_by' = [written_by EXCEPT ![name].editor =
                               IF output.exec = "ok" /\ output.status = 0 THEN "done"
                               ELSE output.stderr]
           /\ IF ~r.ok
              THEN PackagingFails(r.err) /\ UNCHANGED <<outdir, copied>>
              ELSE /\ outdir' = IF output.status = 0
                                THEN Dir([outdir.files EXCEPT ![name] = SetInterpreter(@, loader.name)])
                                ELSE outdir
                   /\ copied' = copied + 1
                   /\ pc' = AfterLoop(copied + 1)
                   /\ UNCHANGED exit
    /\ UNCHANGED <<installed, exec_ldd, resolver, cli, out_before, loader>>

\* lines 306-309: copy the loader under its name; then the wrapper, if asked for
CopyLoader ==
    /\ pc = "copy_loader"
    /\ \/ /\ outdir' = Dir(CopyTo(outdir.files, loader.name, loader.path))
          /\ written_by' = Written(written_by, loader.name, "loader", 0)
          /\ IF cli.make_wrapper
             THEN pc' = "rename" /\ UNCHANGED exit
             ELSE Exit(0, <<>>)
       \/ /\ PackagingFails(<<"Failed to copy loader", loader.path, "to", loader.name>>)
          /\ UNCHANGED <<outdir, written_by>>
    /\ UNCHANGED <<installed, tools, exec_ldd, resolver, cli, out_before, loader, copied>>

\* format!(".{}-original", execname)
OriginalName(name) == "." \o name \o "-original"

\* std::fs::rename(dir/from, dir/to)
RenameFile(files, from, to) ==
    [n \in (DOMAIN files \ {from}) \cup {to} |-> IF n = to THEN files[from] ELSE files[n]]

\* lines 320-321: rename the executable to .<execname>-original
RenameExec ==
    /\ pc = "rename"
    /\ \/ /\ execname \in DOMAIN outdir.files
          /\ outdir' = Dir(RenameFile(outdir.files, execname, OriginalName(execname)))
          /\ written_by' = RenameFile(written_by, execname, OriginalName(execname))
          /\ pc' = "write_wrapper"
          /\ UNCHANGED exit
       \/ /\ PackagingFails(<<"Failed to rename", execname, "to", OriginalName(execname)>>)
          /\ UNCHANGED <<outdir, written_by>>
    /\ UNCHANGED <<installed, tools, exec_ldd, resolver, cli, out_before, loader, copied>>

\* lines 271-280: the script: run the loader of the script's directory with
\* --library-path that directory, on the program of that directory, with "$@"
make_shell_script_wrapper(name, loadername) ==
    [shebang |-> "#!/usr/bin/env bash",
     run |-> <<"$SCRIPTPATH/", loadername>>,
     library_path |-> "$SCRIPTPATH",
     program |-> <<"$SCRIPTPATH/", name>>,
     args |-> "$@"]

\* std::fs::write(dir/name, text): a new file that is not executable
WriteFile(files, name, text) ==
    [n \in DOMAIN files \cup {name} |->
        IF n = name THEN File("script", text, "none", "none", FALSE) ELSE files[n]]

\* lines 323-325: write the script under the executable's name
WriteWrapper ==
    /\ pc = "write_wrapper"
    /\ \/ /\ outdir' = Dir(WriteFile(outdir.files, execname,
                              make_shell_script_wrapper(OriginalName(execname), loader.name)))
          /\ written_by' = Written(written_by, execname, "script", 0)
          /\ pc' = "chmod"
          /\ UNCHANGED exit
       \/ /\ PackagingFails(<<"write failed">>)
          /\ UNCHANGED <<outdir, written_by>>
    /\ UNCHANGED <<installed, tools, exec_ldd, resolver, cli, out_before, loader, copied>>

\* lines 327-335: chmod +x the script; packaging is done
Chmod ==
    /\ pc = "chmod"
    /\ \/ /\ outdir' = Dir([outdir.files EXCEPT ![execname].executable = TRUE])
          /\ Exit(0, <<>>)
       \/ /\ PackagingFails(<<"chmod failed">>)
          /\ UNCHANGED outdir
    /\ UNCHANGED <<installed, tools, exec_ldd, resolver, cli, out_before, loader, copied, written_by>>

\* the steps of traverse_dependencies
Traverse ==
    \/ Inspect
    \/ ListNeeded
    \/ UnknownLocation
    \/ Recurse
    \/ Skip
    \/ Return

Next ==
    \/ Inspect
    \/ ListNeeded
    \/ UnknownLocation
    \/ Recurse
    \/ Skip
    \/ Return
    \/ CheckOutput
    \/ GetLoader
    \/ CreateDir
    \/ CopyDep
    \/ PatchDep
    \/ CopyLoader
    \/ RenameExec
    \/ WriteWrapper
    \/ Chmod

\* the whole run of main, on the host with the libraries PackagedLibs
Spec == Init /\ [][Next]_vars

\* the resolution alone, up to the return of traverse_dependencies to main,
\* on the host with every library
Resolve == InitResolve /\ [][Traverse]_vars

\* the resolution alone, where a step that can be taken is taken
FairResolve == Resolve /\ WF_vars(Traverse)

\* ------------------------------------------------------------------------
\* Properties
\* ------------------------------------------------------------------------
TraverseErrorPrefix == "Failed to traverse dependencies:"
\* traverse_dependencies returned Err to main
TraversalFailed == pc = "exit" /\ exit.stderr # <<>> /\ exit.stderr[1] = TraverseErrorPrefix
\* traverse_dependencies returned Ok to main
ResolutionSucceeded == pc # "traverse" /\ ~TraversalFailed

NodeNames == [i \in 1..Len(dependency_nodes) |-> dependency_nodes[i].name]
NodeNameSet == Range(NodeNames)
\* a message has the text x as one of its parts
Mentions(msg, x) == \E i \in 1..Len(msg) : msg[i] = x

\* C1: resolution terminates, with success or an error, on every graph of the
\* host (cycles and self-references included) and for every answer of ldd and
\* patchelf; the number of calls of traverse_dependencies never exceeds one
\* plus the number of distinct declared dependency names.
C1_TerminatesWithinBound ==
    /\ [](visits <= 1 + Cardinality(declared))
    /\ <>(pc # "traverse")

\* C1 witness: a resolution that ended successfully on a graph with a cycle,
\* after one visit per declared name and one for the root
C1_CyclicGraphResolved ==
    /\ ResolutionSucceeded
    /\ visits = 1 + Cardinality(declared)
    /\ visits >= 3
    /\ \E i \in 1..Len(dependency_nodes) :
          dependency_nodes[i].name \in Range(dependency_nodes[i].dependencies)

\* C2: on every successful resolution no two nodes of the node list have the
\* same name (each unique name is visited once and has one DependencyNode).
C2_OneNodePerName ==
    ResolutionSucceeded =>
        \A i, j \in 1..Len(dependency_nodes) :
            i # j => dependency_nodes[i].name # dependency_nodes[j].name

\* C3 (as claimed): on every successful resolution the size of use_libs
\* equals the length of the node list.
C3_UsedEqualsNodes ==
    ResolutionSucceeded => Len(use_libs) = Len(dependency_nodes)

\* C3 (amended): on every successful resolution the node list has one node
\* more than use_libs has names: the node of the initial root call.
C3_NodesAreUsedPlusRoot ==
    ResolutionSucceeded => Len(dependency_nodes) = Len(use_libs) + 1

\* C3 witness: a successful resolution that visited several libraries
C3_SeveralLibsResolved ==
    ResolutionSucceeded /\ Len(use_libs) >= 3

\* C4: the map is first-wins: no step changes or removes an entry, and every
\* entry is the path of the first mention of its name in the ldd reports, in
\* the order of the visits; a report that names another path is ignored.
C4_FirstWins ==
    [][/\ \A n \in DOMAIN known_lib_location_map :
            /\ n \in DOMAIN known_lib_location_map'
            /\ known_lib_location_map'[n] = known_lib_location_map[n]
       /\ DOMAIN known_lib_location_map' = DOMAIN first_report'
       /\ \A n \in DOMAIN known_lib_location_map' :
            known_lib_location_map'[n] = first_report'[n]
       /\ ignored' # ignored => pc' = "traverse"]_vars

\* C4 witness: a later report named another path for libB; resolution went on
\* to success with the first path
C4_LaterReportIgnored ==
    /\ ResolutionSucceeded
    /\ \E e \in ignored :
          /\ e[1] \in DOMAIN known_lib_location_map
          /\ known_lib_location_map[e[1]] # e[2]
          /\ \E i \in 1..Len(dependency_nodes) :
                /\ dependency_nodes[i].name = e[1]
                /\ dependency_nodes[i].path = known_lib_location_map[e[1]]

\* C5 (as claimed): on every successful resolution, every name in a node's
\* dependency list has a node earlier in the node list.  (Stated for the
\* resolutions that gave every name one node, to keep the second visit of
\* the root out of it.)
C5_DependenciesFirst ==
    (ResolutionSucceeded /\ C2_OneNodePerName) =>
        \A i \in 1..Len(dependency_nodes) :
            \A d \in Range(dependency_nodes[i].dependencies) :
                \E j \in 1..(i - 1) : dependency_nodes[j].name = d

\* C5 (amended): when a node is appended, every name in its dependency list
\* has a node earlier in the node list, or is the name of a call still in
\* progress (the node's own call or one of its callers), which is the case of
\* a cycle.
C5_DependenciesFirstOrInProgress ==
    [][Len(dependency_nodes') > Len(dependency_nodes) =>
        \A d \in Range(dependency_nodes'[Len(dependency_nodes')].dependencies) :
            \/ \E j \in 1..Len(dependency_nodes) : dependency_nodes[j].name = d
            \/ \E k \in 1..Len(stack) : stack[k].needed_name = d]_vars

\* C5 witness: a successful resolution with a node appended before the node
\* of one of its dependencies, and a node appended after all of its own
C5_CycleAndPostOrder ==
    /\ ResolutionSucceeded
    /\ \E i \in 1..Len(dependency_nodes) :
          \E d \in Range(dependency_nodes[i].dependencies) :
              /\ d # dependency_nodes[i].name
              /\ \A j \in 1..(i - 1) : dependency_nodes[j].name # d
    /\ \E i \in 1..Len(dependency_nodes) :
          /\ Len(dependency_nodes[i].dependencies) = 2
          /\ \A d \in Range(dependency_nodes[i].dependencies) :
                \E j \in 1..(i - 1) : dependency_nodes[j].name = d

\* The dependency graph a finished resolution has walked: the declared names
\* of a name are those patchelf listed for its binary.
DepsOf(n) ==
    LET i == CHOOSE i \in 1..Len(dependency_nodes) : dependency_nodes[i].name = n
    IN dependency_nodes[i].dependencies
Successors(S) ==
    UNION {Range(dependency_nodes[i].dependencies) :
            i \in {j \in 1..Len(dependency_nodes) : dependency_nodes[j].name \in S}}
RECURSIVE Closure(_, _)
Closure(S, k) == IF k = 0 THEN S ELSE Closure(S \cup Successors(S), k - 1)
Acyclic ==
    \A n \in NodeNameSet : n \notin Closure(Successors({n}), Cardinality(NodeNameSet))

\* the reference: depth-first post-order from n, in declared order, each name
\* once, after the names of done
RECURSIVE PostOrder(_, _), VisitAll(_, _)
VisitAll(ds, done) ==
    IF ds = <<>> THEN done
    ELSE VisitAll(Tail(ds), IF Head(ds) \in Range(done) THEN done
                            ELSE PostOrder(Head(ds), done))
PostOrder(n, done) == Append(VisitAll(DepsOf(n), done), n)

Diamond ==
    {<<"app", <<"libA", "libB">>>>, <<"libA", <<"libC">>>>, <<"libB", <<"libC">>>>,
     <<"libC", <<>>>>}
WalkedGraph ==
    {<<dependency_nodes[i].name, dependency_nodes[i].dependencies>> :
        i \in 1..Len(dependency_nodes)}

\* C6: on every successful resolution of an acyclic graph the names of the
\* node list are the reference depth-first post-order from the root, root
\* last; for the diamond they are libC, libA, libB, app.
C6_ReferencePostOrder ==
    (ResolutionSucceeded /\ Acyclic) =>
        /\ NodeNames = PostOrder(execname, <<>>)
        /\ NodeNames[Len(NodeNames)] = execname
        /\ WalkedGraph = Diamond => NodeNames = <<"libC", "libA", "libB", "app">>

\* C6 witness: the diamond, resolved
C6_DiamondResolved ==
    ResolutionSucceeded /\ WalkedGraph = Diamond /\ Len(dependency_nodes) = 4

\* the step fails with the unknown-location error naming lib, at once
FailsWithUnknownLocation(lib) ==
    /\ pc' = "exit"
    /\ exit' = Exited(1, <<TraverseErrorPrefix>> \o UnknownLocationError(lib))
    /\ Mentions(exit'.stderr, lib)
    /\ use_libs' = use_libs
    /\ dependency_nodes' = dependency_nodes
    /\ visits' = visits

\* on this host, no ldd output of the binary of an active call has a line for d
NoActiveCallReports(d) ==
    \A k \in 1..Len(stack) :
        \A l \in LddLinesOf(installed, stack[k].needed_path) :
            ~(l.indent /\ l.arrow /\ l.libname = d /\ ~ContainsNotFound(l.pathpart))

\* C7 (as claimed): when the loop reaches a declared name for which neither
\* the report of the binary nor the report of any of its ancestors gave a
\* path (here: none of their ldd outputs has a line for it), resolution fails
\* at once with the unknown-location error naming it.
C7_NoPathInAncestorChain ==
    [][(AtLoop /\ NoActiveCallReports(NextLib)) => FailsWithUnknownLocation(NextLib)]_vars

\* C7 (amended): when the loop reaches a declared name for which no report
\* received so far, of any binary visited so far, gave a path, resolution
\* fails at once with the unknown-location error naming it: the name is not
\* visited and no later sibling is processed.
C7_NoPathInAnyReport ==
    [][(AtLoop /\ NextLib \notin DOMAIN first_report) => FailsWithUnknownLocation(NextLib)]_vars

\* C7 witness: the failure, after a sibling was visited
C7_UnknownLocationReported ==
    /\ pc = "exit"
    /\ Len(dependency_nodes) >= 1
    /\ \E lib \in NeededNames :
          /\ lib \notin DOMAIN first_report
          /\ exit = Exited(1, <<TraverseErrorPrefix>> \o UnknownLocationError(lib))

\* C8: when ldd marks a dependency of a visited binary "not found",
\* resolution fails at once with an error that names the missing dependency
\* and the binary that required it.
C8_NamesDependencyAndBinary ==
    [][(pc = "traverse" /\ pc' = "exit" /\ Mentions(exit'.stderr, "is not found")) =>
        /\ \E n \in NeededNames : exit'.stderr = <<TraverseErrorPrefix>> \o NotFoundError(n)
        /\ \/ Mentions(exit'.stderr, Top.needed_path)
           \/ Mentions(exit'.stderr, Top.needed_name)]_vars

\* the name under which the copy of the i-th node is left in the directory
NodeFile(i) ==
    LET name == FileName(dependency_nodes[i].path)
    IN IF cli.make_wrapper /\ name = execname THEN OriginalName(execname) ELSE name

\* C9: after a successful run every file of the output directory is the
\* loader, the launcher, or stands for exactly one DependencyNode.
C9_NoExtraneousFile ==
    (pc = "exit" /\ exit.status = 0) =>
        \A f \in DOMAIN outdir.files :
            \/ f = loader.name
            \/ cli.make_wrapper /\ f = execname
            \/ Cardinality({i \in 1..Len(dependency_nodes) : NodeFile(i) = f}) = 1

\* C10: when main finds the output directory existing and --force is not
\* given, the run has ended with the output-exists error and the directory
\* is as it was found: nothing was created, copied, patched or renamed.
C10_ExistingOutputRefused ==
    (out_before.kind = "dir" /\ ~cli.force) =>
        /\ pc = "exit"
        /\ exit = Exited(1, OutputExistsError)
        /\ outdir = out_before
        /\ loader = NoLoader
        /\ copied = 0

\* C10 witness: the run refused an existing directory with a file in it
C10_Refused ==
    /\ out_before.kind = "dir"
    /\ ~cli.force
    /\ pc = "exit"
    /\ DOMAIN outdir.files # {}

\* the run ended with status 0: packaging succeeded
PackagingSucceeded == pc = "exit" /\ exit.status = 0

\* the files of the output directory that a turn of the loop over
\* dependencies wrote last (not since replaced by another write)
NodeCopies == {f \in DOMAIN written_by : written_by[f].by = "node"}

\* the file has interpreter ./<loader name> and rpath "."
Patched(f) ==
    /\ outdir.files[f].interpreter = DotSlash(loader.name)
    /\ outdir.files[f].rpath = "."

Launcher ==
    [shebang |-> "#!/usr/bin/env bash",
     run |-> <<"$SCRIPTPATH/", loader.name>>,
     library_path |-> "$SCRIPTPATH",
     program |-> <<"$SCRIPTPATH/", OriginalName(execname)>>,
     args |-> "$@"]

\* C12: after a successful run with --make-wrapper the copy of the
\* executable is at .<execname>-original and the file <execname> is the
\* executable launcher script; the rename comes after all copies and before
\* the script is written.  Without --make-wrapper the file <execname> is the
\* patched copy of the executable and there is no .<execname>-original.
C12_LauncherOrPatchedBinary ==
    /\ (PackagingSucceeded /\ cli.make_wrapper) =>
          /\ OriginalName(execname) \in DOMAIN outdir.files
          /\ outdir.files[OriginalName(execname)].kind = "binary"
          /\ outdir.files[OriginalName(execname)].body = ExecPath
          /\ execname \in DOMAIN outdir.files
          /\ outdir.files[execname].kind = "script"
          /\ outdir.files[execname].body = Launcher
          /\ outdir.files[execname].executable
    /\ pc \in {"rename", "write_wrapper", "chmod"} =>
          /\ cli.make_wrapper
          /\ copied = Len(dependency_nodes)
    /\ pc = "rename" => loader.name \in DOMAIN outdir.files
    /\ pc \in {"write_wrapper", "chmod"} => OriginalName(execname) \in DOMAIN outdir.files
    /\ pc = "write_wrapper" => execname \notin DOMAIN outdir.files
    /\ (PackagingSucceeded /\ ~cli.make_wrapper) =>
          /\ execname \in DOMAIN outdir.files
          /\ outdir.files[execname].kind = "binary"
          /\ outdir.files[execname].body = ExecPath
          /\ Patched(execname)
          /\ OriginalName(execname) \notin DOMAIN outdir.files

\* the dependency lists made so far: of the nodes and of the calls in progress
DependencyLists ==
    {dependency_nodes[i].dependencies : i \in 1..Len(dependency_nodes)}
        \cup {stack[k].dependency_node.dependencies : k \in 1..Len(stack)}

\* the name is in a dependency list, in use_libs, or the name of a library's node
TreatedAsDependency(n) ==
    \/ \E ds \in DependencyLists : n \in Range(ds)
    \/ n \in Range(use_libs)
    \/ \E i \in 1..Len(dependency_nodes) :
          dependency_nodes[i].name = n /\ dependency_nodes[i].path # ExecPath

\* the loader names of the host: the file names of the ldd names that start with '/'
HostLoaderNames ==
    {RsplitSlash(l.libname) : l \in {m \in UNION {LddLinesAt(p) : p \in Paths} :
                                        StartsWithSlash(m.libname)}}

\* C13: the loader is never an ordinary dependency: no name that loader
\* discovery (get_loader) reports, for any ldd output, and no loader name of
\* the host is in a dependency list, in use_libs or the name of a library's
\* node; no name that starts with '/' is a key of the map.
C13_LoaderNeverADependency ==
    /\ \A n \in DOMAIN known_lib_location_map : ~StartsWithSlash(n)
    /\ \A n \in HostLoaderNames : ~TreatedAsDependency(n)
    /\ loader # NoLoader => ~TreatedAsDependency(loader.name)

\* the nodes made for the name n
NodesNamed(n) == {i \in 1..Len(dependency_nodes) : dependency_nodes[i].name = n}

\* C14: a binary that declares its own name (the executable or a library)
\* gets no visit and no node for it: on every successful resolution a name
\* that is in the dependency list of its own node has exactly one node, and
\* the resolution made one call per node.
C14_SelfDependencyNoOp ==
    ResolutionSucceeded =>
        \A i \in 1..Len(dependency_nodes) :
            dependency_nodes[i].name \in Range(dependency_nodes[i].dependencies) =>
                /\ Cardinality(NodesNamed(dependency_nodes[i].name)) = 1
                /\ visits = Cardinality(NodeNameSet)

\* the nodes i before j have different paths with the same file name, and no
\* node after j has that file name
Collide(i, j) ==
    /\ i < j
    /\ dependency_nodes[i].path # dependency_nodes[j].path
    /\ FileName(dependency_nodes[i].path) = FileName(dependency_nodes[j].path)
    /\ \A k \in (j + 1)..Len(dependency_nodes) :
          FileName(dependency_nodes[k].path) # FileName(dependency_nodes[j].path)

\* C15: when two nodes have different paths with the same file name,
\* packaging goes on without an error of its own, and after a successful run
\* the file of that name is the copy of the later node, patched (or reported
\* statically linked): the earlier copy was overwritten.
C15_LaterCopyWins ==
    PackagingSucceeded =>
        \A i, j \in 1..Len(dependency_nodes) :
            Collide(i, j) =>
                LET f == FileName(dependency_nodes[j].path) IN
                /\ f \in DOMAIN outdir.files
                /\ outdir.files[f].kind = "binary"
                /\ outdir.files[f].body = dependency_nodes[j].path
                /\ written_by[f].by = "node" /\ written_by[f].node = j
                /\ \/ written_by[f].editor = "done" /\ Patched(f)
                   \/ written_by[f].editor = "statically linked"

\* C15 witness: a successful run with /lib/libC copied first and /alt/libC
\* copied over it and patched
C15_CollisionPackaged ==
    /\ PackagingSucceeded
    /\ \E i, j \in 1..Len(dependency_nodes) :
          /\ Collide(i, j)
          /\ dependency_nodes[i].path = "/lib/libC"
          /\ dependency_nodes[j].path = "/alt/libC"
    /\ outdir.files["libC"].body = "/alt/libC"
    /\ Patched("libC")

PackagingErrorPrefix == "Failed to copy dependencies to output folder:"
\* copy_dependencies_to_output_folder returned Err to main
PackagingFailed == pc = "exit" /\ exit.stderr # <<>> /\ exit.stderr[1] = PackagingErrorPrefix

\* the file that the current turn of the loop has copied and patchelf is asked about
PatchedFile == FileName(Dep.path)

\* C16: in the loop of the packager an answer "statically linked" of patchelf
\* counts as success: the loop goes on with the next node.  Any other failure
\* of patchelf and any failure of a copy ends packaging at once with an
\* error: the directory keeps the files written so far, no later node is
\* copied or patched, the loader is not copied and no launcher step runs.
C16_StaticGoesOnOthersAbort ==
    /\ [][(pc = "patch" /\ written_by'[PatchedFile].editor = "statically linked") =>
            /\ pc' = AfterLoop(copied + 1)
            /\ copied' = copied + 1
            /\ exit' = Running
            /\ outdir' = outdir]_vars
    /\ [][(pc = "patch" /\ written_by'[PatchedFile].editor \notin {"statically linked", "done"}) =>
            /\ pc' = "exit"
            /\ exit'.status = 1 /\ exit'.stderr[1] = PackagingErrorPrefix
            /\ copied' = copied
            /\ outdir' = outdir]_vars
    /\ [][(pc \in {"copy", "copy_loader"} /\ written_by' = written_by) =>
            /\ pc' = "exit"
            /\ exit'.status = 1 /\ exit'.stderr[1] = PackagingErrorPrefix
            /\ copied' = copied
            /\ outdir' = outdir]_vars
    /\ [][pc = "exit" => UNCHANGED vars]_vars
    /\ []((PackagingFailed /\ outdir.kind = "dir" /\ (copied < Len(dependency_nodes) \/ Mentions(exit.stderr, "Failed to copy loader"))) =>
            /\ \A f \in DOMAIN written_by :
                  /\ written_by[f].by = "node"
                  /\ written_by[f].node <= copied + 1
                  /\ f \in DOMAIN outdir.files
            /\ \A f \in DOMAIN out_before.files : f \in DOMAIN outdir.files
            /\ OriginalName(execname) \notin DOMAIN outdir.files)

\* C16 witness: packaging went on after a statically linked library and then
\* failed at a later node; the copies made before are still in the directory
C16_AbortedAfterStatic ==
    /\ PackagingFailed
    /\ copied = 2 /\ Len(dependency_nodes) = 3
    /\ \E f \in DOMAIN written_by :
          written_by[f].editor = "statically linked" /\ f \in DOMAIN outdir.files

\* C17: the first error that a call of ldd or patchelf returns during the
\* traversal, or that get_loader returns, ends the run with that error: the
\* step that gets it exits with status 1, no call of ldd or patchelf follows
\* (nothing is retried), and packaging has not started: the output path is as
\* main found it, no directory was created and no file was written.
C17_FirstErrorStops ==
    /\ [][(pc \in {"traverse", "get_loader"} /\ tools'.errors > tools.errors) =>
            /\ tools.errors = 0
            /\ pc' = "exit"
            /\ exit'.status = 1 /\ exit'.stderr # <<>>
            /\ outdir' = outdir]_vars
    /\ [][tools.errors > 0 => tools' = tools]_vars
    /\ []((tools.errors > 0 /\ ~PackagingFailed) =>
            /\ pc = "exit"
            /\ outdir = out_before
            /\ outdir.kind = "dir" => cli.force
            /\ written_by = NoWrites
            /\ copied = 0)

\* C17 witness: loader discovery failed after a resolution that visited a
\* library; the output path, absent before, is still absent
C17_LoaderDiscoveryFailed ==
    /\ tools.errors = 1
    /\ tools.calls >= 5
    /\ ResolutionSucceeded
    /\ pc = "exit"
    /\ loader = NoLoader
    /\ out_before = Absent
    /\ outdir = Absent

\* the nodes of libraries: all but the node that the initial root call
\* appends, which is the last one of a successful resolution
LibraryNodes ==
    {i \in 1..Len(dependency_nodes) : ~(ResolutionSucceeded /\ i = Len(dependency_nodes))}

\* C18: in every state of the resolution every name of use_libs is a key of
\* the map, and every node but the one of the initial root call, and every
\* call in progress but the root call, has the path that the map has for its
\* name, which is the path of the first report of the name.
C18_VisitedAreMappedToTheirPath ==
    /\ \A n \in Range(use_libs) : ContainsKey(known_lib_location_map, n)
    /\ \A i \in LibraryNodes :
          /\ ContainsKey(known_lib_location_map, dependency_nodes[i].name)
          /\ dependency_nodes[i].path = known_lib_location_map[dependency_nodes[i].name]
          /\ dependency_nodes[i].path = first_report[dependency_nodes[i].name]
    /\ \A k \in 2..Len(stack) :
          /\ ContainsKey(known_lib_location_map, stack[k].needed_name)
          /\ stack[k].needed_path = known_lib_location_map[stack[k].needed_name]

\* C18 witness: a finished resolution with a library at the path of its
\* first report, another path for it having been reported later
C18_LibraryAtFirstPath ==
    /\ ResolutionSucceeded
    /\ Len(use_libs) >= 2
    /\ \E i \in LibraryNodes : \E e \in ignored :
          /\ e[1] = dependency_nodes[i].name
          /\ e[2] # dependency_nodes[i].path

\* C19: use_libs never holds a name twice; the initial root call does not
\* put the root's name into it (the name gets there only as a declared
\* dependency); and on every successful resolution the node list has exactly
\* one node for each name of use_libs and one more for the initial root call,
\* the last one.
C19_OneNodePerUsedPlusRootCall ==
    /\ \A i, j \in 1..Len(use_libs) : i # j => use_libs[i] # use_libs[j]
    /\ visits = 1 => use_libs = <<>>
    /\ execname \in Range(use_libs) => execname \in declared
    /\ ResolutionSucceeded =>
          /\ Len(dependency_nodes) = Len(use_libs) + 1
          /\ dependency_nodes[Len(dependency_nodes)].name = execname
          /\ dependency_nodes[Len(dependency_nodes)].path = ExecPath
          /\ \A n \in Range(use_libs) :
                Cardinality(NodesNamed(n) \ {Len(dependency_nodes)}) = 1
          /\ \A i \in 1..(Len(dependency_nodes) - 1) :
                dependency_nodes[i].name \in Range(use_libs)

\* C19 witness: a successful resolution of the executable, two libraries and
\* the executable once more as a declared dependency
C19_RootAlsoUsed ==
    /\ ResolutionSucceeded
    /\ Len(use_libs) = 3
    /\ execname \in Range(use_libs)
    /\ Len(dependency_nodes) = 4

\* C20: when the ldd output of a visited binary marks a dependency "not
\* found", the visit changes nothing in the resolver: the map gets no entry
\* of that output (not even of the lines before the marked one), no name is
\* pushed, no node is made, and patchelf is not run for the binary: the ldd
\* call is the last call of a tool, and the run ends with the error.
C20_UnresolvedReportChangesNothing ==
    /\ [][(pc = "traverse" /\ tools'.unresolved_at > 0) =>
            /\ Top.at = "ldd"
            /\ known_lib_location_map' = known_lib_location_map
            /\ use_libs' = use_libs
            /\ dependency_nodes' = dependency_nodes
            /\ \A i \in 1..Len(dependency_nodes') : dependency_nodes'[i].path # Top.needed_path
            /\ tools'.calls = tools.calls + 1
            /\ pc' = "exit"
            /\ \E n \in NeededNames :
                  exit' = Exited(1, <<TraverseErrorPrefix>> \o NotFoundError(n))]_vars
    /\ [][tools.unresolved_at > 0 => UNCHANGED vars]_vars

\* C20 witness: the ldd output of libA had an entry and then a line marked
\* "not found"; the map has only what the executable's output gave it
C20_EntryBeforeUnresolvedDropped ==
    /\ pc = "exit"
    /\ tools.unresolved_at = 2
    /\ use_libs = <<"libA">>
    /\ DOMAIN known_lib_location_map = {"libA"}
    /\ dependency_nodes = <<>>

====
